---- MODULE Spec2Model ----
(***************************************************************************)
(* State-machine model of gui.pyw, the Tkinter shell of the Tropical       *)
(* Cyclone Risk Model: module start-up (root window, icon, widget tree,    *)
(* chart), the Tk event loop with its queue of user events, the one        *)
(* callback onOkClicked, and window close.                                 *)
(*                                                                         *)
(* Text values are sequences of one-character strings.  A keystroke is     *)
(* modelled with the insertion cursor at the end of the field: a printable *)
(* key appends, BackSpace removes the last character.                      *)
(***************************************************************************)
EXTENDS Integers, Sequences, FiniteSets

VARIABLES pc, widgets, entry1, entry2, combo, progress, axes, queue, posted

vars == <<pc, widgets, entry1, entry2, combo, progress, axes, queue, posted>>

(* ---------------- bounds ---------------- *)

\* number of user events the window system delivers in one run
MaxEvents == 3

(* ---------------- program constants ---------------- *)

\* the literal written by onOkClicked, 'Ok pressed.'
OkText == <<"O", "k", " ", "p", "r", "e", "s", "s", "e", "d", ".">>

\* combo['values'] = ('one', 'two', 'three')
ComboValues == <<"one", "two", "three">>

\* variant: the state option left at its default
ComboState_normal == "normal"

\* ttk.Combobox(..., state='readonly')
ComboState == "readonly"

\* combo.current(0): Tcl index of the preselected value
ComboCurrent == 0

\* progress['value'] = 50
ProgressValue == 50

\* value of a ttk.Progressbar that was never assigned
ProgressDefault == 0

\* np.arange(0.0, 3.0, 0.01), in hundredths
ArangeStart == 0
ArangeStop == 300
ArangeStep == 1

\* printable keys the user may type (none of them occurs in OkText)
Keys == {"a", "b"}

\* the two ttk.Button widgets
Buttons == {"button", "calibrationButton"}

\* the widgets a key event can be delivered to
KeyTargets == {"entry1", "entry2", "combo"}

\* variant: the call combo.current(0) is missing, the variable stays empty
comboCurrent_unset(values, i) == ""

\* combo.current(i): the variable takes the i-th value, counted from 0
comboCurrent(values, i) == values[i + 1]

(* ---------------- events ---------------- *)

KeyEvent(t, k)  == [type |-> "Key", target |-> t, arg |-> k]
BackSpaceEvent(t) == [type |-> "BackSpace", target |-> t, arg |-> ""]
SelectEvent(v)  == [type |-> "Select", target |-> "combo", arg |-> v]
ClickEvent(b)   == [type |-> "Click", target |-> b, arg |-> ""]
CloseEvent      == [type |-> "Close", target |-> "ROOT", arg |-> ""]

Events ==
    {KeyEvent(t, k) : t \in KeyTargets, k \in Keys}
    \cup {BackSpaceEvent(t) : t \in KeyTargets}
    \cup {SelectEvent(ComboValues[i]) : i \in 1..Len(ComboValues)}
    \cup {ClickEvent(b) : b \in Buttons}
    \cup {CloseEvent}

(* ---------------- pure helpers ---------------- *)

\* len(np.arange(start, stop, step)) = ceil((stop - start) / step)
ArangeLen(start, stop, step) == (stop - start + step - 1) \div step

\* LineFigure.render: one call of self.a.plot(t, s, color='k') adds one line
render(a) ==
    Append(a, [color |-> "k",
               samples |-> ArangeLen(ArangeStart, ArangeStop, ArangeStep)])

\* the part of the state a callback can reach, as a record
UI == [entry1 |-> entry1, entry2 |-> entry2, combo |-> combo,
       progress |-> progress, axes |-> axes, queue |-> queue]

\* variant: the text is inserted after the old value instead of replacing it
onOkClicked_append(s) == [s EXCEPT !.entry1 = s.entry1 \o OkText]

\* variant: the handler also clears the other form field
onOkClicked_clear(s) == [s EXCEPT !.entry1 = OkText, !.entry2 = <<>>]

\* variant: the handler re-schedules itself (after_idle) before returning
onOkClicked_after(s) ==
    [s EXCEPT !.entry1 = OkText,
              !.queue = Append(s.queue, [type |-> "Click", target |-> "button", arg |-> ""])]

\* GUI.onOkClicked: self.entry1.set('Ok pressed.')
onOkClicked(s) == [s EXCEPT !.entry1 = OkText]

\* variant: the Calibration tab's button writes to its own tab's field
ButtonCommand_own(b, s) ==
    CASE b = "button"            -> [s EXCEPT !.entry1 = OkText]
      [] b = "calibrationButton" -> [s EXCEPT !.entry2 = OkText]

\* command= option of each button
ButtonCommand(b, s) ==
    CASE b = "button"            -> onOkClicked(s)
      [] b = "calibrationButton" -> onOkClicked(s)

DropLast(t) == IF t = <<>> THEN t ELSE SubSeq(t, 1, Len(t) - 1)

\* ttk.Entry bound to a StringVar: the widget edits the variable
EntryKey(t, k) == Append(t, k)
EntryBackSpace(t) == DropLast(t)

\* ttk.Combobox: a readonly combobox ignores typed text
ComboKey(c, k) == IF ComboState = "readonly" THEN c ELSE k
ComboBackSpace(c) == IF ComboState = "readonly" THEN c ELSE ""

\* choosing an item of the drop-down list
ComboSelect(c, v) == v

\* the class or command binding run for one event
Handle(e, s) ==
    CASE e.type = "Key" /\ e.target = "entry1" ->
            [s EXCEPT !.entry1 = EntryKey(s.entry1, e.arg)]
      [] e.type = "Key" /\ e.target = "entry2" ->
            [s EXCEPT !.entry2 = EntryKey(s.entry2, e.arg)]
      [] e.type = "Key" /\ e.target = "combo" ->
            [s EXCEPT !.combo = ComboKey(s.combo, e.arg)]
      [] e.type = "BackSpace" /\ e.target = "entry1" ->
            [s EXCEPT !.entry1 = EntryBackSpace(s.entry1)]
      [] e.type = "BackSpace" /\ e.target = "entry2" ->
            [s EXCEPT !.entry2 = EntryBackSpace(s.entry2)]
      [] e.type = "BackSpace" /\ e.target = "combo" ->
            [s EXCEPT !.combo = ComboBackSpace(s.combo)]
      [] e.type = "Select" ->
            [s EXCEPT !.combo = ComboSelect(s.combo, e.arg)]
      [] e.type = "Click" -> ButtonCommand(e.target, s)

(* ---------------- initial state ---------------- *)

\* the interpreter before line 11: no widget, no variable, empty event queue
Init ==
    /\ pc = "start"
    /\ widgets = {}
    /\ entry1 = <<>>
    /\ entry2 = <<>>
    /\ combo = ""
    /\ progress = ProgressDefault
    /\ axes = <<>>
    /\ queue = <<>>
    /\ posted = 0

(* ---------------- start-up ---------------- *)

\* variant: a failed tk.Tk() is caught and tried again
CreateRoot_retry ==
    /\ \/ /\ pc = "start"
          /\ \/ pc' = "root" /\ widgets' = widgets \cup {"ROOT"}
             \/ pc' = "fault_Tk" /\ UNCHANGED widgets
       \/ /\ pc = "fault_Tk"
          /\ pc' = "start"
          /\ UNCHANGED widgets
    /\ UNCHANGED <<entry1, entry2, combo, progress, axes, queue, posted>>

\* ROOT = tk.Tk(): succeeds, or raises TclError (no display)
CreateRoot ==
    /\ pc = "start"
    /\ \/ pc' = "root" /\ widgets' = widgets \cup {"ROOT"}
       \/ pc' = "fault_Tk" /\ UNCHANGED widgets
    /\ UNCHANGED <<entry1, entry2, combo, progress, axes, queue, posted>>

\* ROOT.title(...); iconphoto with tk.PhotoImage(data=ICON): succeeds, or
\* raises TclError when the image data cannot be decoded
SetIcon ==
    /\ pc = "root"
    /\ \/ pc' = "configured" /\ widgets' = widgets \cup {"icon"}
       \/ pc' = "fault_PhotoImage" /\ UNCHANGED widgets
    /\ UNCHANGED <<entry1, entry2, combo, progress, axes, queue, posted>>

\* GUI.__init__ up to the end of _initSideBySidePanes
initSideBySidePanes ==
    /\ pc = "configured"
    /\ pc' = "panes"
    /\ widgets' = widgets \cup {"app", "panedwindow", "lf", "rf"}
    /\ UNCHANGED <<entry1, entry2, combo, progress, axes, queue, posted>>

\* _initModelConfigControls, the Data tab: entry1, combo
initDataProcessingControls ==
    /\ pc = "panes"
    /\ pc' = "data"
    /\ widgets' = widgets \cup {"notebook", "dataProcessFrame", "entry1", "combo"}
    /\ entry1' = <<>>
    /\ combo' = comboCurrent(ComboValues, ComboCurrent)
    /\ UNCHANGED <<entry2, progress, axes, queue, posted>>

\* _initModelConfigControls, the Calibration tab: entry2 and its Ok button
initCalibrationControls ==
    /\ pc = "data"
    /\ pc' = "calibration"
    /\ widgets' = widgets \cup {"calibrationFrame", "entry2", "calibrationButton"}
    /\ entry2' = <<>>
    /\ UNCHANGED <<entry1, combo, progress, axes, queue, posted>>

\* variant: the assignment progress['value'] = 50 is missing
initProgress_unset(p) == p

\* value given to the progress bar by _initModelConfigControls
initProgress(p) == ProgressValue

\* the rest of _initModelConfigControls: progress bar and shared Ok button
initModelConfigControls ==
    /\ pc = "calibration"
    /\ pc' = "config"
    /\ widgets' = widgets \cup {"progress", "button"}
    /\ progress' = initProgress(progress)
    /\ UNCHANGED <<entry1, entry2, combo, axes, queue, posted>>

\* variant: render is called a second time during construction
LineFigureInit_twice(a) == render(render(a))

\* the plot left by LineFigure.__init__: one call of render
LineFigureInit(a) == render(a)

\* figure = LineFigure(rf): winfo_rgb('SystemButtonFace') raises TclError on
\* a platform without that colour name, otherwise the figure is built
LineFigure ==
    /\ pc = "config"
    /\ \/ /\ pc' = "figure"
          /\ widgets' = widgets \cup {"figure"}
          /\ axes' = LineFigureInit(axes)
       \/ /\ pc' = "fault_LineFigure"
          /\ UNCHANGED <<widgets, axes>>
    /\ UNCHANGED <<entry1, entry2, combo, progress, queue, posted>>

\* app.mainloop() is entered
EnterMainloop ==
    /\ pc = "figure"
    /\ pc' = "mainloop"
    /\ UNCHANGED <<widgets, entry1, entry2, combo, progress, axes, queue, posted>>

(* ---------------- the event loop ---------------- *)

\* the window system queues one user event for the mapped window
Post ==
    /\ pc = "mainloop"
    /\ posted < MaxEvents
    /\ \E e \in Events : queue' = Append(queue, e)
    /\ posted' = posted + 1
    /\ UNCHANGED <<pc, widgets, entry1, entry2, combo, progress, axes>>

\* mainloop takes the oldest event and runs its binding to completion
Dispatch ==
    /\ pc = "mainloop"
    /\ queue # <<>>
    /\ Head(queue).type # "Close"
    /\ LET s == Handle(Head(queue), [UI EXCEPT !.queue = Tail(queue)])
       IN /\ entry1' = s.entry1
          /\ entry2' = s.entry2
          /\ combo' = s.combo
          /\ progress' = s.progress
          /\ axes' = s.axes
          /\ queue' = s.queue
    /\ UNCHANGED <<pc, widgets, posted>>

\* variant: a WM_DELETE_WINDOW handler that swallows the close request
CloseWindow_ignored ==
    /\ pc = "mainloop"
    /\ queue # <<>>
    /\ Head(queue).type = "Close"
    /\ queue' = Tail(queue)
    /\ UNCHANGED <<pc, widgets, entry1, entry2, combo, progress, axes, posted>>

\* WM_DELETE_WINDOW: the root window and every child are destroyed, events
\* still queued for them are dropped
CloseWindow ==
    /\ pc = "mainloop"
    /\ queue # <<>>
    /\ Head(queue).type = "Close"
    /\ pc' = "destroyed"
    /\ widgets' = {}
    /\ queue' = <<>>
    /\ UNCHANGED <<entry1, entry2, combo, progress, axes, posted>>

\* mainloop returns when no main window is left; the script ends
MainloopReturn ==
    /\ pc = "destroyed"
    /\ pc' = "terminated"
    /\ UNCHANGED <<widgets, entry1, entry2, combo, progress, axes, queue, posted>>

Next ==
    \/ CreateRoot
    \/ SetIcon
    \/ initSideBySidePanes
    \/ initDataProcessingControls
    \/ initCalibrationControls
    \/ initModelConfigControls
    \/ LineFigure
    \/ EnterMainloop
    \/ Post
    \/ Dispatch
    \/ CloseWindow
    \/ MainloopReturn

Spec == Init /\ [][Next]_vars

\* the interpreter keeps executing: a destroyed window makes mainloop return
LiveSpec == Spec /\ WF_vars(MainloopReturn)

(* ---------------- properties ---------------- *)

\* mainloop has been entered
Launched == pc \in {"mainloop", "destroyed", "terminated"}

\* start-up ended in an uncaught exception
Faulted == pc \in {"fault_Tk", "fault_PhotoImage", "fault_LineFigure"}

\* number of events the loop has taken off the queue so far
Dispatched == posted - Len(queue)

\* this step is the loop running the binding of an event of type ty
StepOf(ty) ==
    /\ pc = "mainloop"
    /\ posted' = posted
    /\ queue # <<>>
    /\ Head(queue).type = ty

\* C1: every Ok press leaves entry1 equal to 'Ok pressed.' whatever it held
\* before, and applying the handler twice gives what applying it once gives.
C1_OkSetsEntry1 ==
    /\ [](onOkClicked(UI).entry1 = OkText)
    /\ [](onOkClicked(onOkClicked(UI)) = onOkClicked(UI))
    /\ [][StepOf("Click") => entry1' = OkText]_vars

\* Ok was pressed already and a further Ok press is next in the queue
C1_Witness ==
    /\ pc = "mainloop"
    /\ entry1 = OkText
    /\ queue # <<>>
    /\ Head(queue).type = "Click"

\* C2: once the application is launched the progress value is 50, in every
\* state reachable by any events.
C2_ProgressIs50 == Launched => progress = 50

\* the application ran events and terminated with the progress value at 50
C2_Witness ==
    /\ pc = "terminated"
    /\ posted = MaxEvents
    /\ progress = 50

\* C3: after launch and before the first event is dispatched the selection
\* is "one".
C3_InitialSelection == (pc = "mainloop" /\ Dispatched = 0) => combo = "one"

\* launched, a selection change is waiting, nothing was dispatched yet
C3_Witness ==
    /\ pc = "mainloop"
    /\ Dispatched = 0
    /\ queue # <<>>
    /\ Head(queue) = SelectEvent("three")
    /\ combo = "one"

\* C4: after launch the selection is always one of "one", "two", "three".
C4_SelectionEnumerated == Launched => combo \in {"one", "two", "three"}

\* a key was typed into the combobox after the user selected "three"
C4_Witness ==
    /\ pc = "mainloop"
    /\ combo = "three"
    /\ Dispatched = 2
    /\ queue = <<KeyEvent("combo", "a")>>

\* C5: after launch the chart holds exactly one curve, and no step after
\* launch changes the plot.
C5_OneCurveNeverRedrawn ==
    /\ [](Launched => Len(axes) = 1)
    /\ [][Launched => axes' = axes]_vars

\* both text fields were edited and Ok pressed, the chart still has one curve
C5_Witness ==
    /\ Launched
    /\ Len(axes) = 1
    /\ entry1 = OkText
    /\ entry2 # <<>>
    /\ combo = "one"

\* C6: the loop is left only by dispatching the window close, which destroys
\* the window and drops the queue; the process then eventually terminates,
\* only that way, and after termination nothing happens and nothing is left.
C6_CloseIsOnlyTermination ==
    /\ [][(pc = "mainloop" /\ pc' # "mainloop") => StepOf("Close")]_vars
    /\ [][StepOf("Close") => (pc' = "destroyed" /\ queue' = <<>> /\ widgets' = {})]_vars
    /\ [][pc' = "terminated" => pc = "destroyed"]_vars
    /\ ((pc = "destroyed") ~> (pc = "terminated"))
    /\ [][pc = "terminated" => FALSE]_vars
    /\ [](pc = "terminated" => (queue = <<>> /\ widgets = {}))

\* events were dispatched, then the window was closed and the process ended
C6_Witness ==
    /\ pc = "terminated"
    /\ Dispatched > 0
    /\ posted >= 2

\* C7: an Ok press changes none of entry2, selection, progress and chart;
\* entry2 changes only when a key event for entry2 is dispatched.
C7_OkFrame ==
    /\ [][StepOf("Click") => UNCHANGED <<entry2, combo, progress, axes>>]_vars
    /\ [][entry2' # entry2 =>
            ((StepOf("Key") \/ StepOf("BackSpace")) /\ Head(queue).target = "entry2")]_vars

\* entry2 and the selection were changed and survive an Ok press
C7_Witness ==
    /\ entry1 = OkText
    /\ entry2 # <<>>
    /\ combo # "one"

\* C8: when creating the root window or decoding the icon fails, the GUI
\* frame and its widgets do not exist, the loop was never entered, no event
\* was ever queued or dispatched, and no step follows the fault.
C8_FailFast ==
    /\ [](pc \in {"fault_Tk", "fault_PhotoImage"} =>
            (widgets \subseteq {"ROOT"} /\ posted = 0 /\ queue = <<>>
             /\ entry1 = <<>> /\ entry2 = <<>> /\ combo = "" /\ axes = <<>>))
    /\ [][Faulted => FALSE]_vars
    /\ [][pc' = "mainloop" => pc \in {"figure", "mainloop"}]_vars

\* the icon could not be decoded: only the root window had been created
C8_Witness == pc = "fault_PhotoImage" /\ widgets = {"ROOT"}

\* C9: every step of the loop that is not the arrival of a user event takes
\* exactly the oldest event off the queue and leaves no new work behind.
C9_OneEventAtATime ==
    [][(pc = "mainloop" /\ posted' = posted) =>
        /\ queue # <<>>
        /\ \/ queue' = Tail(queue)
           \/ Head(queue).type = "Close" /\ queue' = <<>>]_vars

\* an Ok press was dispatched while two further events were waiting
C9_Witness ==
    /\ pc = "mainloop"
    /\ entry1 = OkText
    /\ Dispatched = 1
    /\ Len(queue) = 2

\* C10: both Ok buttons run the same command: either one yields the same
\* state, with entry1 = 'Ok pressed.' and entry2 untouched.
C10_BothButtonsSame ==
    /\ [](ButtonCommand("button", UI) = ButtonCommand("calibrationButton", UI))
    /\ [][(StepOf("Click") /\ Head(queue).target = "calibrationButton") =>
            (entry1' = OkText /\ entry2' = entry2)]_vars

\* the Calibration tab's Ok button is pressed next, its own field holds text
C10_Witness ==
    /\ pc = "mainloop"
    /\ entry2 # <<>>
    /\ entry1 # OkText
    /\ queue # <<>>
    /\ Head(queue) = ClickEvent("calibrationButton")

====
